---- MODULE Spec2Model ----
(***************************************************************************)
(* A model of github.com/nikolaydubina/validate.                           *)
(*                                                                         *)
(* src/validate.go holds four revisions of the package, one after the      *)
(* other:                                                                  *)
(*   lines   1-126  struct form with labels: Min[T]{Name, Value, Min} ...  *)
(*                  are Validatable and are their own errors; All takes    *)
(*                  Validatables and returns ValidationError               *)
(*   lines 128-220  function form: Min(name, v, min) ... return errSingle, *)
(*                  All takes errors and returns errMultiple (a struct)    *)
(*   lines 222-324  the earliest struct form: no labels, MinMax, the flat  *)
(*                  rendering, All calls Validate again on a failure       *)
(*   lines 326-416  the latest function form: errMultiple is a slice       *)
(*                                                                         *)
(* Values: an error is a record with a "type" field naming its Go type;    *)
(* nil is Nil.  Ordered values (int, float64, time.Duration) are integers; *)
(* the float64 literals of the tests are scaled by 10000 (123.456 is       *)
(* 1234560).  A time.Time is the integer of its instant: Before and After  *)
(* compare instants.  The type parameter T of a generic is the field T.    *)
(***************************************************************************)
EXTENDS Integers, Sequences, FiniteSets, TLC

VARIABLES
    prim,       \* the last call of a primitive check: its inputs and its result
    pc,         \* position: "idle", in All: "loop", "done", "panic", in Error(): "render", "rendered"
    form,       \* which All runs: "errors", "validatable", "earliest"
    vs,         \* the variadic argument of All
    i,          \* number of elements of vs the loop has consumed
    errs,       \* the local errs of All
    ret,        \* what the last completed call of All returned
    invoked,    \* the indices of vs whose Validate was invoked, in order
    recv,       \* the receiver of the current call of Error() on a set
    ri,         \* number of children the loop of Error() has rendered
    msg,        \* the local msg of Error()
    texts,      \* what the calls of Error() on ret returned, in order
    held,       \* ret as it was when All returned it
    prior,      \* what the completed calls of All on the current vs returned, in order
    callers,    \* the concurrent callers of All: the position and the locals of each
    walk,       \* a call of Error() with the calls it makes: the frames, the nodes visited
    scan        \* a call of OneOf followed step by step: its inputs, the comparisons made

vars == <<prim, pc, form, vs, i, errs, ret, invoked, recv, ri, msg, texts, held, prior, callers,
          walk, scan>>

\* The state of the calls of Error().
renderVars == <<recv, ri, msg, texts>>

\* ---------------------------------------------------------------- bounds

\* Ordered values and bounds of the primitive checks are drawn from 0..MaxVal.
MaxVal == 2
\* All over errors is called with at most MaxLen elements.
MaxLen == 5
\* A result of All is passed on to a parent All while its tree is at most this deep.
MaxDepth == 2

\* ------------------------------------------------------ program constants

\* 123.456, the salary bound of the tests, scaled by 10000.
MaxSalary == 1234560

\* 256.99, the salary of the failing employee of the tests, scaled by 10000.
BobSalary == 2569900

Names == {"", "age"}
Ordered == (0..MaxVal) \cup {MaxSalary, MaxSalary + 1}

\* ------------------------------------------------------------- nil, errors

Nil == [type |-> "nil"]

IsNil(e) == e.type = "nil"

\* What a call that panics yields instead of a result: a method called on a nil
\* interface value is a run-time panic (nil pointer dereference).
Panic == [type |-> "panic"]

\* ------------------------------------------- the latest function form (326-416)

errSingle(T, name, val, to, op) ==
    [type |-> "errSingle", T |-> T, Name |-> name, Val |-> val, To |-> to, Op |-> op]

Min(T, name, v, min) ==
    IF v > min THEN Nil
    ELSE errSingle(T, name, v, min, "smaller than min")

Max(T, name, v, max) ==
    IF v < max THEN Nil
    ELSE errSingle(T, name, v, max, "higher than max")

Before(name, t, before) ==
    IF t < before THEN Nil
    ELSE errSingle("time.Time", name, t, before, "is not before")

After(name, t, after) ==
    IF t > after THEN Nil
    ELSE errSingle("time.Time", name, t, after, "is not after")

errOneOf(T, name, val, options) ==
    [type |-> "errOneOf", T |-> T, Name |-> name, Val |-> val, Options |-> options]

\* for _, q := range options { if v == q { return nil } }: the scan from element k on.
\* The scan leaving out the last option.
OneOfScan_SkipLast(v, options, k) == \E j \in k..(Len(options) - 1) : v = options[j]

RECURSIVE OneOfScan(_, _, _)
OneOfScan(v, options, k) ==
    IF k > Len(options) THEN FALSE
    ELSE IF v = options[k] THEN TRUE
    ELSE OneOfScan(v, options, k + 1)

\* A sequence without the repetitions of its elements.
RECURSIVE Distinct(_)
Distinct(s) ==
    IF Len(s) = 0 THEN <<>>
    ELSE LET d == Distinct(SubSeq(s, 1, Len(s) - 1))
         IN  IF \E k \in 1..Len(d) : d[k] = s[Len(s)] THEN d ELSE Append(d, s[Len(s)])

\* OneOf keeping the distinct options only in the failure it returns.
OneOf_DistinctOptions(T, name, v, options) ==
    IF OneOfScan(v, options, 1) THEN Nil
    ELSE errOneOf(T, name, v, Distinct(options))

OneOf(T, name, v, options) ==
    IF OneOfScan(v, options, 1) THEN Nil
    ELSE errOneOf(T, name, v, options)

\* ------------------------------------------ the earlier function form (128-220)

Min_B(T, name, v, min) ==
    IF v > min THEN Nil
    ELSE errSingle(T, name, v, min, "smaller than min")

Max_B(T, name, v, max) ==
    IF v < max THEN Nil
    ELSE errSingle(T, name, v, max, "higher than max")

\* ------------------------------------------ the struct form with labels (1-126)

\* The validator instances, as the struct literals build them.
MinStruct(T, name, value, min) ==
    [type |-> "Min", T |-> T, Name |-> name, Value |-> value, Min |-> min]

MaxStruct(T, name, value, max) ==
    [type |-> "Max", T |-> T, Name |-> name, Value |-> value, Max |-> max]

OneOfStruct(T, name, value, values) ==
    [type |-> "OneOf", T |-> T, Name |-> name, Value |-> value, Values |-> values]

BeforeStruct(name, value, time) ==
    [type |-> "Before", Name |-> name, Value |-> value, Time |-> time]

AfterStruct(name, value, time) ==
    [type |-> "After", Name |-> name, Value |-> value, Time |-> time]

\* Min.Validate with the comparison made inclusive: a value equal to the bound fails.
Min_Validate_Inclusive(s) == IF s.Value <= s.Min THEN s ELSE Nil

Min_Validate(s) == IF s.Value < s.Min THEN s ELSE Nil

Max_Validate(s) == IF s.Value > s.Max THEN s ELSE Nil

\* for _, q := range s.Values { if q == s.Value { return nil } }: the scan from k on.
\* The scan stopping after the first element it looks at.
OneOf_ValidateScan_FirstOnly(s, k) == k <= Len(s.Values) /\ s.Values[k] = s.Value

RECURSIVE OneOf_ValidateScan(_, _)
OneOf_ValidateScan(s, k) ==
    IF k > Len(s.Values) THEN FALSE
    ELSE IF s.Values[k] = s.Value THEN TRUE
    ELSE OneOf_ValidateScan(s, k + 1)

OneOf_Validate(s) == IF OneOf_ValidateScan(s, 1) THEN Nil ELSE s

\* time.Time.Before and After compare the instants.
Before_Validate(s) == IF ~(s.Value < s.Time) THEN s ELSE Nil

\* After.Validate accepting a value equal to the reference.
After_Validate_Inclusive(s) == IF ~(s.Value >= s.Time) THEN s ELSE Nil

After_Validate(s) == IF ~(s.Value > s.Time) THEN s ELSE Nil

\* --------------------------------- All and its result, latest function form

\* type errMultiple []error
errMultiple(es) == [type |-> "errMultiple", Errors |-> es]

\* The loop stopping at the first failure: later failures are not collected.
All_Append_FirstOnly(es, err) == IF ~IsNil(err) /\ Len(es) = 0 THEN Append(es, err) ELSE es

\* The loop splicing the children of a nested set into the parent's errs.
All_Append_Flatten(es, err) ==
    IF IsNil(err) THEN es
    ELSE IF err.type = "errMultiple" THEN es \o err.Errors
    ELSE Append(es, err)

\* One iteration of the loop: if err != nil { errs = append(errs, err) }
All_Append(es, err) == IF ~IsNil(err) THEN Append(es, err) ELSE es

\* All returning the set it built even when it is empty.
All_Return_Always(es) == errMultiple(es)

\* if len(errs) > 0 { return errMultiple(errs) }; return nil
All_Return(es) == IF Len(es) > 0 THEN errMultiple(es) ELSE Nil

\* errs after the loop has consumed the first k elements of xs.
RECURSIVE All_Errs(_, _)
All_Errs(xs, k) ==
    IF k = 0 THEN <<>> ELSE All_Append(All_Errs(xs, k - 1), xs[k])

All(xs) == All_Return(All_Errs(xs, Len(xs)))

\* ------------------------------ the composites of the tests (struct form)

\* errors.New(text), fmt.Errorf(...): an error that is its text.
errorString(text) == [type |-> "errorString", s |-> text]

Color(c) == [type |-> "Color", s |-> c]

Education(duration, schoolName) ==
    [type |-> "Education", Duration |-> duration, SchoolName |-> schoolName]

Employee(name, age, color, education, salary, experience, birthday, vacationStart) ==
    [type |-> "Employee", Name |-> name, Age |-> age, Color |-> color,
     Education |-> education, Salary |-> salary, Experience |-> experience,
     Birthday |-> birthday, VacationStart |-> vacationStart]

Color_Validate(c) ==
    IF c.s \in {"red", "green", "blue"} THEN Nil
    ELSE errorString("color wrong value(" \o c.s \o "), expected([red green blue])")

\* The checks Education.Validate passes to All when the duration is not special.
Education_Checks(e) ==
    << MinStruct("int", "", e.Duration, 10),
       OneOfStruct("string", "", e.SchoolName, <<"KAIST", "Stanford">>) >>

\* The checks Employee.Validate passes to All.  Durations are in hours, a
\* time.Time is the year of a January 1st, 00:00 UTC.
Employee_Checks(e) ==
    << OneOfStruct("string", "name", e.Name, <<"Zeus", "Hera">>),
       OneOfStruct("int", "age", e.Age, <<35, 55>>),
       MinStruct("int", "age", e.Age, 10),
       e.Color,
       e.Education,
       MaxStruct("float64", "salary", e.Salary, MaxSalary),
       MaxStruct("time.Duration", "duration", e.Experience, 1),
       AfterStruct("birthday", e.Birthday, 1984),
       BeforeStruct("vacation_start", e.VacationStart, 2024) >>

\* The first and the second failing employee of TestEmployee_Error; the fields
\* the second leaves out are zero values.
TestEmployee1 ==
    Employee("Bob", 101, Color("orange"), Education(75, "Berkeley"), BobSalary, 10, 1984, 2025)

TestEmployee2 ==
    Employee("Bob", -10, Color("orange"), Education(75, "Berkeley"), BobSalary, 0, 1, 1)

\* ------------------------------------ All, struct form with labels (1-126)

ValidationError(es) == [type |-> "ValidationError", Errors |-> es]

\* if len(errs) > 0 { return ValidationError{Errors: errs} }; return nil
All_A_Return(es) == IF Len(es) > 0 THEN ValidationError(es) ELSE Nil

\* The loop putting a new failure in front of the ones collected so far.
All_A_Append_InFront(es, err) == IF ~IsNil(err) THEN <<err>> \o es ELSE es

\* The loop putting every failure that is not a set into a set of its own.
All_A_Append_Wrapped(es, err) ==
    IF IsNil(err) THEN es
    ELSE IF err.type = "ValidationError" THEN Append(es, err)
    ELSE Append(es, [type |-> "ValidationError", Errors |-> <<err>>])

\* if err := f.Validate(); err != nil { errs = append(errs, err) }
All_A_Append(es, err) == IF ~IsNil(err) THEN Append(es, err) ELSE es

RECURSIVE Validate(_)
RECURSIVE All_A_Errs(_, _)

All_A_Errs(xs, k) ==
    IF k = 0 THEN <<>> ELSE All_A_Append(All_A_Errs(xs, k - 1), Validate(xs[k]))

\* f.Validate() panics when f is the nil Validatable: All does not return.
All_A(xs) ==
    IF \E k \in 1..Len(xs) : Validate(xs[k]) = Panic THEN Panic
    ELSE All_A_Return(All_A_Errs(xs, Len(xs)))

Education_Validate(e) ==
    IF e.Duration % 17 = 5 THEN errorString("my special error")
    ELSE All_A(Education_Checks(e))

Employee_Validate(e) == All_A(Employee_Checks(e))

\* f.Validate() on a Validatable: the method of f's dynamic type.
Validate(f) ==
    CASE f.type = "Min" -> Min_Validate(f)
      [] f.type = "Max" -> Max_Validate(f)
      [] f.type = "OneOf" -> OneOf_Validate(f)
      [] f.type = "Before" -> Before_Validate(f)
      [] f.type = "After" -> After_Validate(f)
      [] f.type = "Color" -> Color_Validate(f)
      [] f.type = "Education" -> Education_Validate(f)
      [] f.type = "Employee" -> Employee_Validate(f)
      [] f.type = "nil" -> Panic

\* ------------------------------------- the earliest struct form (222-324)

MinStruct_C(T, value, min) == [type |-> "Min", T |-> T, Value |-> value, Min |-> min]

MaxStruct_C(T, value, max) == [type |-> "Max", T |-> T, Value |-> value, Max |-> max]

MinMaxStruct_C(T, value, min, max) ==
    [type |-> "MinMax", T |-> T, Value |-> value, Min |-> min, Max |-> max]

OneOfStruct_C(T, value, values) ==
    [type |-> "OneOf", T |-> T, Value |-> value, Values |-> values]

Min_Validate_C(s) == IF s.Value < s.Min THEN s ELSE Nil

Max_Validate_C(s) == IF s.Value > s.Max THEN s ELSE Nil

RECURSIVE OneOf_ValidateScan_C(_, _)
OneOf_ValidateScan_C(s, k) ==
    IF k > Len(s.Values) THEN FALSE
    ELSE IF s.Values[k] = s.Value THEN TRUE
    ELSE OneOf_ValidateScan_C(s, k + 1)

OneOf_Validate_C(s) == IF OneOf_ValidateScan_C(s, 1) THEN Nil ELSE s

\* if len(errs) > 0 { return ValidationError{Errors: errs} }; return nil
All_C_Return(es) == IF Len(es) > 0 THEN ValidationError(es) ELSE Nil

RECURSIVE Validate_C(_)
RECURSIVE All_C_Errs(_, _)

\* if err := f.Validate(); err != nil { errs = append(errs, f.Validate()) }
All_C_Errs(xs, k) ==
    IF k = 0 THEN <<>>
    ELSE IF ~IsNil(Validate_C(xs[k]))
         THEN Append(All_C_Errs(xs, k - 1), Validate_C(xs[k]))
         ELSE All_C_Errs(xs, k - 1)

All_C(xs) ==
    IF \E k \in 1..Len(xs) : Validate_C(xs[k]) = Panic THEN Panic
    ELSE All_C_Return(All_C_Errs(xs, Len(xs)))

\* MinMax.Validate handing its two checks to All with Min first.
MinMax_Validate_C_MinFirst(s) ==
    All_C(<< MinStruct_C(s.T, s.Value, s.Min), MaxStruct_C(s.T, s.Value, s.Max) >>)

MinMax_Validate_C(s) ==
    All_C(<< MaxStruct_C(s.T, s.Value, s.Max), MinStruct_C(s.T, s.Value, s.Min) >>)

Validate_C(f) ==
    CASE f.type = "Min" -> Min_Validate_C(f)
      [] f.type = "Max" -> Max_Validate_C(f)
      [] f.type = "MinMax" -> MinMax_Validate_C(f)
      [] f.type = "OneOf" -> OneOf_Validate_C(f)
      [] f.type = "nil" -> Panic

\* How many times Validate of one element runs in one iteration of the
\* earliest All: once for the test, and once more to get the value appended.
All_C_Invocations(f) == IF ~IsNil(Validate_C(f)) THEN 2 ELSE 1

\* ------------------------------------------------- calls of the primitives

\* The allowed-sets tried: every sequence of at most MaxOpts values.
MaxOpts == 3

SeqsUpTo(S, n) == UNION {[1..k -> S] : k \in 0..n}

NoCall == [fn |-> "none"]

CallMin ==
    /\ \E rev \in {"B", "D"}, name \in Names, v \in Ordered, min \in Ordered :
          prim' = [fn |-> "Min", rev |-> rev, name |-> name, v |-> v, b |-> min,
                   ret |-> IF rev = "D" THEN Min("int", name, v, min)
                           ELSE Min_B("int", name, v, min)]
    /\ UNCHANGED <<walk, scan, callers, prior, pc, form, vs, i, errs, ret, invoked, renderVars, held>>

CallMax ==
    /\ \E rev \in {"B", "D"}, name \in Names, v \in Ordered, max \in Ordered :
          prim' = [fn |-> "Max", rev |-> rev, name |-> name, v |-> v, b |-> max,
                   ret |-> IF rev = "D" THEN Max("int", name, v, max)
                           ELSE Max_B("int", name, v, max)]
    /\ UNCHANGED <<walk, scan, callers, prior, pc, form, vs, i, errs, ret, invoked, renderVars, held>>

CallOneOf ==
    /\ \E name \in Names, v \in 0..MaxVal, options \in SeqsUpTo(0..MaxVal, MaxOpts) :
          prim' = [fn |-> "OneOf", name |-> name, v |-> v, options |-> options,
                   ret |-> OneOf("int", name, v, options)]
    /\ UNCHANGED <<walk, scan, callers, prior, pc, form, vs, i, errs, ret, invoked, renderVars, held>>

CallBefore ==
    /\ \E name \in Names, t \in 0..MaxVal, before \in 0..MaxVal :
          prim' = [fn |-> "Before", name |-> name, v |-> t, b |-> before,
                   ret |-> Before(name, t, before)]
    /\ UNCHANGED <<walk, scan, callers, prior, pc, form, vs, i, errs, ret, invoked, renderVars, held>>

CallAfter ==
    /\ \E name \in Names, t \in 0..MaxVal, after \in 0..MaxVal :
          prim' = [fn |-> "After", name |-> name, v |-> t, b |-> after,
                   ret |-> After(name, t, after)]
    /\ UNCHANGED <<walk, scan, callers, prior, pc, form, vs, i, errs, ret, invoked, renderVars, held>>

ValidateMin ==
    /\ \E name \in Names, value \in Ordered, min \in Ordered :
          LET s == MinStruct("int", name, value, min)
          IN  prim' = [fn |-> "Min.Validate", s |-> s, ret |-> Min_Validate(s)]
    /\ UNCHANGED <<walk, scan, callers, prior, pc, form, vs, i, errs, ret, invoked, renderVars, held>>

ValidateMax ==
    /\ \E name \in Names, value \in Ordered, max \in Ordered :
          LET s == MaxStruct("int", name, value, max)
          IN  prim' = [fn |-> "Max.Validate", s |-> s, ret |-> Max_Validate(s)]
    /\ UNCHANGED <<walk, scan, callers, prior, pc, form, vs, i, errs, ret, invoked, renderVars, held>>

ValidateOneOf ==
    /\ \E name \in Names, value \in 0..MaxVal, values \in SeqsUpTo(0..MaxVal, MaxOpts) :
          LET s == OneOfStruct("int", name, value, values)
          IN  prim' = [fn |-> "OneOf.Validate", s |-> s, ret |-> OneOf_Validate(s)]
    /\ UNCHANGED <<walk, scan, callers, prior, pc, form, vs, i, errs, ret, invoked, renderVars, held>>

ValidateBefore ==
    /\ \E name \in Names, value \in 0..MaxVal, time \in 0..MaxVal :
          LET s == BeforeStruct(name, value, time)
          IN  prim' = [fn |-> "Before.Validate", s |-> s, ret |-> Before_Validate(s)]
    /\ UNCHANGED <<walk, scan, callers, prior, pc, form, vs, i, errs, ret, invoked, renderVars, held>>

ValidateAfter ==
    /\ \E name \in Names, value \in 0..MaxVal, time \in 0..MaxVal :
          LET s == AfterStruct(name, value, time)
          IN  prim' = [fn |-> "After.Validate", s |-> s, ret |-> After_Validate(s)]
    /\ UNCHANGED <<walk, scan, callers, prior, pc, form, vs, i, errs, ret, invoked, renderVars, held>>

\* MinMax.Validate of the earliest struct form, also with Min above Max.
ValidateMinMax ==
    /\ \E value \in 0..MaxVal, min \in 0..MaxVal, max \in 0..MaxVal :
          LET s == MinMaxStruct_C("int", value, min, max)
          IN  prim' = [fn |-> "MinMax.Validate", s |-> s, ret |-> MinMax_Validate_C(s)]
    /\ UNCHANGED <<walk, scan, callers, prior, pc, form, vs, i, errs, ret, invoked, renderVars, held>>

\* The goroutines that call All at the same time, each on data of its own.
Callers == {"g1", "g2"}

\* No call of Error() is being followed.
NoWalk == [tree |-> Nil, stack |-> <<>>, visits |-> 0, text |-> ""]

\* No call of OneOf is being followed.
NoScan == [T |-> "int", Name |-> "", v |-> 0, options |-> <<>>, k |-> 0, ret |-> Nil]

\* A caller that has not entered All.
NotCalling == [pc |-> "idle", form |-> "errors", vs |-> <<>>, i |-> 0, errs |-> <<>>, ret |-> Nil]

Init ==
    /\ prim = NoCall
    /\ pc = "idle"
    /\ form = "errors"
    /\ vs = <<>>
    /\ i = 0
    /\ errs = <<>>
    /\ ret = Nil
    /\ invoked = <<>>
    /\ recv = Nil
    /\ ri = 0
    /\ msg = <<>>
    /\ texts = <<>>
    /\ held = Nil
    /\ prior = <<>>
    /\ callers = [c \in Callers |-> NotCalling]
    /\ walk = NoWalk
    /\ scan = NoScan

NextPrimitives ==
    \/ CallMin
    \/ CallMax
    \/ CallOneOf
    \/ CallBefore
    \/ CallAfter
    \/ ValidateMin
    \/ ValidateMax
    \/ ValidateOneOf
    \/ ValidateBefore
    \/ ValidateAfter
    \/ ValidateMinMax

\* The primitive checks, each called on every input of the bounded sets.
SpecPrimitives == Init /\ [][NextPrimitives]_vars

\* -------------------------------------------------------------- rendering

\* strings.Join(elems, sep)
RECURSIVE Join(_, _)
Join(elems, sep) ==
    IF Len(elems) = 0 THEN ""
    ELSE IF Len(elems) = 1 THEN elems[1]
    ELSE elems[1] \o sep \o Join(Tail(elems), sep)

\* A decimal numeral padded with zeros on the left to w digits.
RECURSIVE Pad(_, _)
Pad(digits, w) == IF Len(digits) >= w THEN digits ELSE Pad("0" \o digits, w)

\* The digits after the decimal point, f of them out of 10^w, without trailing zeros.
RECURSIVE Fraction(_, _)
Fraction(f, w) ==
    IF f % 10 = 0 THEN Fraction(f \div 10, w - 1) ELSE Pad(ToString(f), w)

\* %v of a float64 (here a non-negative number of 1/10000s): the shortest
\* decimal that gives the number back, "79" or "123.456".
FormatFloat64(v) ==
    IF v % 10000 = 0 THEN ToString(v \div 10000)
    ELSE ToString(v \div 10000) \o "." \o Fraction(v % 10000, 4)

\* %v of a time.Duration of whole hours: Duration.String().
FormatDuration(h) == IF h = 0 THEN "0s" ELSE ToString(h) \o "h0m0s"

\* %v of a time.Time, the January 1st, 00:00 UTC of year y: Time.String().
FormatTime(y) == Pad(ToString(y), 4) \o "-01-01 00:00:00 +0000 UTC"

\* %v of a value of type T.
Format(T, v) ==
    CASE T = "int" -> ToString(v)
      [] T = "string" -> v
      [] T = "float64" -> FormatFloat64(v)
      [] T = "time.Duration" -> FormatDuration(v)
      [] T = "time.Time" -> FormatTime(v)

\* %v of a []T: the elements, a space between them, in brackets.
FormatSlice(T, xs) ==
    "[" \o Join([k \in 1..Len(xs) |-> Format(T, xs[k])], " ") \o "]"

\* The latest function form.
errSingle_Error(x) ==
    x.Name \o "(" \o Format(x.T, x.Val) \o ") " \o x.Op \o " (" \o Format(x.T, x.To) \o ")"

errOneOf_Error(x) ==
    x.Name \o "(" \o Format(x.T, x.Val) \o ") not in " \o FormatSlice(x.T, x.Options)

\* "validate: " + strconv.Itoa(len(e)) + " errors: [" + strings.Join(msg, "; ") + "]"
errMultiple_Text(n, msgs) ==
    "validate: " \o ToString(n) \o " errors: [" \o Join(msgs, "; ") \o "]"

RECURSIVE Error(_)

errMultiple_Error(x) ==
    errMultiple_Text(Len(x.Errors), [k \in 1..Len(x.Errors) |-> Error(x.Errors[k])])

\* q.Error() on an error of the function form: the method of q's dynamic type.
Error(q) ==
    CASE q.type = "errSingle" -> errSingle_Error(q)
      [] q.type = "errOneOf" -> errOneOf_Error(q)
      [] q.type = "errMultiple" -> errMultiple_Error(q)
      [] q.type = "errorString" -> q.s

\* The struct form with labels.
Min_Error(x) ==
    x.Name \o "(" \o Format(x.T, x.Value) \o ") smaller than min(" \o Format(x.T, x.Min) \o ")"

Max_Error(x) ==
    x.Name \o "(" \o Format(x.T, x.Value) \o ") higher than max(" \o Format(x.T, x.Max) \o ")"

OneOf_Error(x) ==
    x.Name \o "(" \o Format(x.T, x.Value) \o ") is not in " \o FormatSlice(x.T, x.Values)

Before_Error(x) ==
    x.Name \o "(" \o FormatTime(x.Value) \o ") is not before (" \o FormatTime(x.Time) \o ")"

After_Error(x) ==
    x.Name \o "(" \o FormatTime(x.Value) \o ") is not after (" \o FormatTime(x.Time) \o ")"

\* The set rendered in the flat style: the messages joined, no count, no brackets.
ValidationError_Text_Flat(n, msgs) == Join(msgs, ";")

\* "validate: " + strconv.Itoa(len(e.Errors)) + " errors: [" + strings.Join(msg, "; ") + "]"
ValidationError_Text(n, msgs) ==
    "validate: " \o ToString(n) \o " errors: [" \o Join(msgs, "; ") \o "]"

RECURSIVE Error_A(_)

ValidationError_Error(x) ==
    ValidationError_Text(Len(x.Errors), [k \in 1..Len(x.Errors) |-> Error_A(x.Errors[k])])

\* q.Error() on an error of the struct form: the method of q's dynamic type.
Error_A(q) ==
    CASE q.type = "Min" -> Min_Error(q)
      [] q.type = "Max" -> Max_Error(q)
      [] q.type = "OneOf" -> OneOf_Error(q)
      [] q.type = "Before" -> Before_Error(q)
      [] q.type = "After" -> After_Error(q)
      [] q.type = "ValidationError" -> ValidationError_Error(q)
      [] q.type = "errorString" -> q.s

\* The earliest struct form: no labels, a space before the bound.
Min_Error_C(x) ==
    "(" \o Format(x.T, x.Value) \o ") smaller than min (" \o Format(x.T, x.Min) \o ")"

Max_Error_C(x) ==
    "(" \o Format(x.T, x.Value) \o ") higher than max (" \o Format(x.T, x.Max) \o ")"

OneOf_Error_C(x) ==
    "(" \o Format(x.T, x.Value) \o ") is not in " \o FormatSlice(x.T, x.Values)

\* if len(e.Errors) == 0 { return "" }; ...; return strings.Join(msg, ";")
ValidationError_Text_C(n, msgs) == IF n = 0 THEN "" ELSE Join(msgs, ";")

RECURSIVE Error_C(_)

ValidationError_Error_C(x) ==
    ValidationError_Text_C(Len(x.Errors), [k \in 1..Len(x.Errors) |-> Error_C(x.Errors[k])])

\* q.Error() on an error of the earliest struct form.
Error_C(q) ==
    CASE q.type = "Min" -> Min_Error_C(q)
      [] q.type = "Max" -> Max_Error_C(q)
      [] q.type = "OneOf" -> OneOf_Error_C(q)
      [] q.type = "ValidationError" -> ValidationError_Error_C(q)
      [] q.type = "errorString" -> q.s

\* ------------------------------------------------------- the calls of All

\* The number of nodes on the longest path from e down to a leaf, e not counted:
\* 0 for a single violation, 1 for a set of single violations, ...
RECURSIVE Depth(_)
Depth(e) ==
    IF e.type \in {"errMultiple", "ValidationError"}
    THEN 1 + (CHOOSE d \in {Depth(e.Errors[k]) : k \in 1..Len(e.Errors)} :
                \A k \in 1..Len(e.Errors) : Depth(e.Errors[k]) <= d)
    ELSE 0

\* What a composite's Validate hands to All in the function form: nil or the
\* failure of a primitive check ...
SampleErrors == {Nil, Min("int", "age", 0, 1), OneOf("int", "", 2, <<0, 1>>)}

\* ... or the result of a nested composite's own All, here a one-element set
\* that the previous call returned.
ChildErrors ==
    IF ret.type = "errMultiple" /\ Len(ret.Errors) = 1 /\ Depth(ret) <= MaxDepth
    THEN {ret} ELSE {}

\* The Validatables handed to All in the struct form: failing and passing
\* primitives, and a composite that fails with a one-element set.
SampleValidatables ==
    { MinStruct("int", "age", 0, 1),
      MaxStruct("int", "age", 1, 1),
      OneOfStruct("int", "", 2, <<0, 1>>),
      Education(75, "Berkeley") }

\* The Validatables handed to the earliest All.
SampleValidatables_C ==
    { MinStruct_C("int", 0, 1),
      MaxStruct_C("int", 1, 1),
      OneOfStruct_C("int", 2, <<0, 1>>),
      MinMaxStruct_C("int", 1, 2, 0) }

\* The employees validated: the fields of the tests' employees, in every
\* combination, and a duration (3) that fails both checks of Education.
Employees ==
    { Employee(name, age, Color(color), Education(duration, school), salary,
               experience, birthday, vacationStart) :
        name \in {"Bob", "Hera"}, age \in {101, -10, 55}, color \in {"orange", "red"},
        duration \in {75, 5, 3}, school \in {"Berkeley", "KAIST"}, salary \in {BobSalary, 790000},
        experience \in {10, 0}, birthday \in {1984, 2022, 1}, vacationStart \in {2025, 1} }

\* validate.All(vs...) is entered, in the latest function form.
All_Start ==
    /\ pc = "idle"
    /\ \E xs \in SeqsUpTo(SampleErrors, MaxLen) : vs' = xs
    /\ form' = "errors"
    /\ pc' = "loop"
    /\ i' = 0
    /\ errs' = <<>>
    /\ ret' = Nil
    /\ invoked' = <<>>
    /\ prior' = <<>>
    /\ UNCHANGED <<walk, scan, callers, prim, renderVars, held>>

\* The composite around a nested composite: validate.All(vs...) is entered with
\* the result of the nested composite's All among its arguments.
All_Parent_Start ==
    /\ pc = "done"
    /\ \E xs \in SeqsUpTo(SampleErrors \cup ChildErrors, MaxLen) :
          /\ \E k \in 1..Len(xs) : xs[k] \in ChildErrors
          /\ vs' = xs
    /\ form' = "errors"
    /\ pc' = "loop"
    /\ i' = 0
    /\ errs' = <<>>
    /\ ret' = Nil
    /\ invoked' = <<>>
    /\ prior' = <<>>
    /\ UNCHANGED <<walk, scan, callers, prim, renderVars, held>>

\* One iteration of for _, err := range vs.
All_Loop ==
    /\ pc = "loop" /\ form = "errors"
    /\ i < Len(vs)
    /\ errs' = All_Append(errs, vs[i + 1])
    /\ i' = i + 1
    /\ UNCHANGED <<walk, scan, callers, prior, prim, pc, form, vs, ret, invoked, renderVars, held>>

All_Exit ==
    /\ pc = "loop" /\ form = "errors"
    /\ i = Len(vs)
    /\ ret' = All_Return(errs)
    /\ held' = ret'
    /\ pc' = "done"
    /\ prior' = Append(prior, ret')
    /\ UNCHANGED <<walk, scan, callers, prim, form, vs, i, errs, invoked, renderVars>>

\* All over Validatables is called with at most MaxStructLen Validatables from
\* the samples (Employee.Validate calls it with its nine).
MaxStructLen == 3

\* A call of All with a nil Validatable among its arguments has at most this
\* many arguments.
MaxNilLen == 2

\* validate.All(vs...) is entered, in the struct form with labels.
All_A_Start ==
    /\ pc = "idle"
    /\ \E xs \in SeqsUpTo(SampleValidatables, MaxStructLen)
                    \cup SeqsUpTo(SampleValidatables \cup {Nil}, MaxNilLen) : vs' = xs
    /\ form' = "validatable"
    /\ pc' = "loop"
    /\ i' = 0
    /\ errs' = <<>>
    /\ ret' = Nil
    /\ invoked' = <<>>
    /\ prior' = <<>>
    /\ UNCHANGED <<walk, scan, callers, prim, renderVars, held>>

\* Employee.Validate of the tests enters validate.All with its nine checks.
Employee_Validate_Start ==
    /\ pc = "idle"
    /\ \E e \in Employees : vs' = Employee_Checks(e)
    /\ form' = "validatable"
    /\ pc' = "loop"
    /\ i' = 0
    /\ errs' = <<>>
    /\ ret' = Nil
    /\ invoked' = <<>>
    /\ prior' = <<>>
    /\ UNCHANGED <<walk, scan, callers, prim, renderVars, held>>

\* One iteration of for _, f := range vs: f.Validate() is invoked once.
All_A_Loop ==
    /\ pc = "loop" /\ form = "validatable"
    /\ i < Len(vs)
    /\ Validate(vs[i + 1]) # Panic
    /\ errs' = All_A_Append(errs, Validate(vs[i + 1]))
    /\ invoked' = Append(invoked, i + 1)
    /\ i' = i + 1
    /\ UNCHANGED <<walk, scan, callers, prior, prim, pc, form, vs, ret, renderVars, held>>

\* f is the nil Validatable: f.Validate() panics, and the call never returns.
All_A_Panic ==
    /\ pc = "loop" /\ form = "validatable"
    /\ i < Len(vs)
    /\ Validate(vs[i + 1]) = Panic
    /\ invoked' = Append(invoked, i + 1)
    /\ pc' = "panic"
    /\ UNCHANGED <<walk, scan, callers, prior, prim, form, vs, i, errs, ret, renderVars, held>>

All_A_Exit ==
    /\ pc = "loop" /\ form = "validatable"
    /\ i = Len(vs)
    /\ ret' = All_A_Return(errs)
    /\ held' = ret'
    /\ pc' = "done"
    /\ prior' = Append(prior, ret')
    /\ UNCHANGED <<walk, scan, callers, prim, form, vs, i, errs, invoked, renderVars>>

\* validate.All(vs...) is entered, in the earliest struct form.
All_C_Start ==
    /\ pc = "idle"
    /\ \E xs \in SeqsUpTo(SampleValidatables_C, MaxStructLen) : vs' = xs
    /\ form' = "earliest"
    /\ pc' = "loop"
    /\ i' = 0
    /\ errs' = <<>>
    /\ ret' = Nil
    /\ invoked' = <<>>
    /\ prior' = <<>>
    /\ UNCHANGED <<walk, scan, callers, prim, renderVars, held>>

\* One iteration of the earliest loop: f.Validate() is invoked for the test and,
\* when it failed, once more for the value appended.
All_C_Loop ==
    /\ pc = "loop" /\ form = "earliest"
    /\ i < Len(vs)
    /\ errs' = IF ~IsNil(Validate_C(vs[i + 1]))
               THEN Append(errs, Validate_C(vs[i + 1]))
               ELSE errs
    /\ invoked' = invoked \o [k \in 1..All_C_Invocations(vs[i + 1]) |-> i + 1]
    /\ i' = i + 1
    /\ UNCHANGED <<walk, scan, callers, prior, prim, pc, form, vs, ret, renderVars, held>>

All_C_Exit ==
    /\ pc = "loop" /\ form = "earliest"
    /\ i = Len(vs)
    /\ ret' = All_C_Return(errs)
    /\ held' = ret'
    /\ pc' = "done"
    /\ prior' = Append(prior, ret')
    /\ UNCHANGED <<walk, scan, callers, prim, form, vs, i, errs, invoked, renderVars>>

\* The caller evaluates the same composite at most MaxEvals times.
MaxEvals == 2

\* All entered again with errs still holding what the previous call collected, as
\* if errs were declared outside the function.
All_A_Again_SharedErrs ==
    /\ pc = "done" /\ form = "validatable"
    /\ Len(prior) < MaxEvals
    /\ pc' = "loop"
    /\ i' = 0
    /\ ret' = Nil
    /\ invoked' = <<>>
    /\ UNCHANGED <<walk, scan, callers, prim, form, vs, errs, renderVars, held, prior>>

\* The caller validates the same composite again: validate.All is entered with
\* the same vs, and var errs []error is a fresh local.
All_A_Again ==
    /\ pc = "done" /\ form = "validatable"
    /\ Len(prior) < MaxEvals
    /\ pc' = "loop"
    /\ i' = 0
    /\ errs' = <<>>
    /\ ret' = Nil
    /\ invoked' = <<>>
    /\ UNCHANGED <<walk, scan, callers, prim, form, vs, renderVars, held, prior>>

\* The same, in the earliest struct form.
All_C_Again ==
    /\ pc = "done" /\ form = "earliest"
    /\ Len(prior) < MaxEvals
    /\ pc' = "loop"
    /\ i' = 0
    /\ errs' = <<>>
    /\ ret' = Nil
    /\ invoked' = <<>>
    /\ UNCHANGED <<walk, scan, callers, prim, form, vs, renderVars, held, prior>>

\* The caller asks the set that All returned for its text, at most MaxRenders times.
MaxRenders == 2

\* errMultiple.Error() is entered on the set All returned; All's locals are gone.
errMultiple_Error_Start ==
    /\ pc \in {"done", "rendered"} /\ form = "errors"
    /\ ~IsNil(ret)
    /\ Len(texts) < MaxRenders
    /\ recv' = ret
    /\ msg' = <<>>
    /\ ri' = 0
    /\ pc' = "render"
    /\ vs' = <<>> /\ i' = 0 /\ errs' = <<>> /\ invoked' = <<>>
    /\ prior' = <<>>
    /\ UNCHANGED <<walk, scan, callers, prim, form, ret, texts, held>>

\* The loop writing the text of a child over the child: e[i] = errors.New(q.Error()).
errMultiple_Error_Loop_InPlace ==
    /\ pc = "render" /\ form = "errors"
    /\ ri < Len(recv.Errors)
    /\ msg' = Append(msg, Error(recv.Errors[ri + 1]))
    /\ ret' = [ret EXCEPT !.Errors[ri + 1] = errorString(Error(recv.Errors[ri + 1]))]
    /\ ri' = ri + 1
    /\ UNCHANGED <<walk, scan, callers, prior, prim, pc, form, vs, i, errs, invoked, recv, texts, held>>

\* One iteration of for _, q := range e { msg = append(msg, q.Error()) }
errMultiple_Error_Loop ==
    /\ pc = "render" /\ form = "errors"
    /\ ri < Len(recv.Errors)
    /\ msg' = Append(msg, Error(recv.Errors[ri + 1]))
    /\ ri' = ri + 1
    /\ UNCHANGED <<walk, scan, callers, prior, prim, pc, form, vs, i, errs, ret, invoked, recv, texts, held>>

errMultiple_Error_Exit ==
    /\ pc = "render" /\ form = "errors"
    /\ ri = Len(recv.Errors)
    /\ texts' = Append(texts, errMultiple_Text(Len(recv.Errors), msg))
    /\ pc' = "rendered"
    /\ UNCHANGED <<walk, scan, callers, prior, prim, form, vs, i, errs, ret, invoked, recv, ri, msg, held>>

\* ValidationError.Error() is entered on the set All returned.
ValidationError_Error_Start ==
    /\ pc \in {"done", "rendered"} /\ form = "validatable"
    /\ ~IsNil(ret)
    /\ Len(texts) < MaxRenders
    /\ recv' = ret
    /\ msg' = <<>>
    /\ ri' = 0
    /\ pc' = "render"
    /\ vs' = <<>> /\ i' = 0 /\ errs' = <<>> /\ invoked' = <<>>
    /\ prior' = <<>>
    /\ UNCHANGED <<walk, scan, callers, prim, form, ret, texts, held>>

\* One iteration of for _, q := range e.Errors { msg = append(msg, q.Error()) }
ValidationError_Error_Loop ==
    /\ pc = "render" /\ form = "validatable"
    /\ ri < Len(recv.Errors)
    /\ msg' = Append(msg, Error_A(recv.Errors[ri + 1]))
    /\ ri' = ri + 1
    /\ UNCHANGED <<walk, scan, callers, prior, prim, pc, form, vs, i, errs, ret, invoked, recv, texts, held>>

ValidationError_Error_Exit ==
    /\ pc = "render" /\ form = "validatable"
    /\ ri = Len(recv.Errors)
    /\ texts' = Append(texts, ValidationError_Text(Len(recv.Errors), msg))
    /\ pc' = "rendered"
    /\ UNCHANGED <<walk, scan, callers, prior, prim, form, vs, i, errs, ret, invoked, recv, ri, msg, held>>

\* The earliest ValidationError.Error() is entered on the set All returned.
ValidationError_Error_C_Start ==
    /\ pc \in {"done", "rendered"} /\ form = "earliest"
    /\ ~IsNil(ret)
    /\ Len(texts) < MaxRenders
    /\ recv' = ret
    /\ msg' = <<>>
    /\ ri' = 0
    /\ pc' = "render"
    /\ vs' = <<>> /\ i' = 0 /\ errs' = <<>> /\ invoked' = <<>>
    /\ prior' = <<>>
    /\ UNCHANGED <<walk, scan, callers, prim, form, ret, texts, held>>

\* One iteration of for _, q := range e.Errors { msg = append(msg, q.Error()) }
ValidationError_Error_C_Loop ==
    /\ pc = "render" /\ form = "earliest"
    /\ ri < Len(recv.Errors)
    /\ msg' = Append(msg, Error_C(recv.Errors[ri + 1]))
    /\ ri' = ri + 1
    /\ UNCHANGED <<walk, scan, callers, prior, prim, pc, form, vs, i, errs, ret, invoked, recv, texts, held>>

ValidationError_Error_C_Exit ==
    /\ pc = "render" /\ form = "earliest"
    /\ ri = Len(recv.Errors)
    /\ texts' = Append(texts, ValidationError_Text_C(Len(recv.Errors), msg))
    /\ pc' = "rendered"
    /\ UNCHANGED <<walk, scan, callers, prior, prim, form, vs, i, errs, ret, invoked, recv, ri, msg, held>>

Next ==
    \/ All_Start
    \/ All_Parent_Start
    \/ All_Loop
    \/ All_Exit
    \/ All_A_Start
    \/ Employee_Validate_Start
    \/ All_A_Loop
    \/ All_A_Panic
    \/ All_A_Exit
    \/ All_A_Again
    \/ All_C_Start
    \/ All_C_Loop
    \/ All_C_Exit
    \/ All_C_Again
    \/ errMultiple_Error_Start
    \/ errMultiple_Error_Loop
    \/ errMultiple_Error_Exit
    \/ ValidationError_Error_Start
    \/ ValidationError_Error_Loop
    \/ ValidationError_Error_Exit
    \/ ValidationError_Error_C_Start
    \/ ValidationError_Error_C_Loop
    \/ ValidationError_Error_C_Exit

\* The calls of All, a result of which may be nested in the next call, and the
\* calls of Error() on a set that All returned.
Spec == Init /\ [][Next]_vars

\* ------------------------------------ the caller's memory after a call

\* After a call returned, the caller writes to its own data at most MaxWrites times.
MaxWrites == 1

\* The state outside prim.
callVars == <<pc, form, vs, i, errs, ret, invoked, recv, ri, msg, texts, held, prior, callers,
              walk, scan>>

\* opts := []int{...}; err := validate.OneOf(name, v, opts...): a slice followed
\* by ... is passed as it is, no new slice is made, and errOneOf{Options: options}
\* keeps that slice: the failure and the caller share one backing array, slice.
Slice_CallOneOf ==
    /\ prim.fn = "none"
    /\ \E name \in Names, v \in 0..MaxVal, opts \in SeqsUpTo(0..MaxVal, MaxOpts) :
          prim' = [fn |-> "OneOf", name |-> name, v |-> v, options |-> opts,
                   slice |-> opts, writes |-> 0,
                   ret |-> OneOf("int", name, v, opts),
                   was |-> OneOf("int", name, v, opts)]
    /\ UNCHANGED callVars

\* vals := []int{...}; err := validate.OneOf[int]{Name, Value, Values: vals}.Validate():
\* the failure is a copy of the struct, its Values the caller's slice.
Slice_ValidateOneOf ==
    /\ prim.fn = "none"
    /\ \E name \in Names, value \in 0..MaxVal, vals \in SeqsUpTo(0..MaxVal, MaxOpts) :
          LET s == OneOfStruct("int", name, value, vals)
          IN  prim' = [fn |-> "OneOf.Validate", s |-> s, slice |-> vals, writes |-> 0,
                       ret |-> OneOf_Validate(s), was |-> OneOf_Validate(s)]
    /\ UNCHANGED callVars

\* opts[k] = x, by the caller, after the call returned: a write to the backing
\* array, which a failure that holds the slice reads too.
Caller_WriteElement ==
    /\ prim.fn \in {"OneOf", "OneOf.Validate"}
    /\ prim.writes < MaxWrites
    /\ \E k \in 1..Len(prim.slice), x \in 0..MaxVal :
          prim' = [prim EXCEPT
                     !.slice[k] = x,
                     !.writes = @ + 1,
                     !.ret = IF IsNil(@) THEN @
                             ELSE IF prim.fn = "OneOf" THEN [@ EXCEPT !.Options[k] = x]
                             ELSE [@ EXCEPT !.Values[k] = x]]
    /\ UNCHANGED callVars

\* a := ...; err := validate.Min(name, a, min): a is passed by value, errSingle
\* holds copies of the arguments.
Value_CallMin ==
    /\ prim.fn = "none"
    /\ \E name \in Names, v \in 0..MaxVal, min \in 0..MaxVal :
          prim' = [fn |-> "Min", name |-> name, v |-> v, b |-> min,
                   arg |-> v, writes |-> 0,
                   ret |-> Min("int", name, v, min),
                   was |-> Min("int", name, v, min)]
    /\ UNCHANGED callVars

\* a = x, by the caller, after the call returned.
Caller_WriteValue ==
    /\ prim.fn = "Min"
    /\ prim.writes < MaxWrites
    /\ \E x \in 0..MaxVal : prim' = [prim EXCEPT !.arg = x, !.writes = @ + 1]
    /\ UNCHANGED callVars

NextAliasing ==
    \/ Slice_CallOneOf
    \/ Slice_ValidateOneOf
    \/ Caller_WriteElement
    \/ Value_CallMin
    \/ Caller_WriteValue

\* A primitive is called on the caller's data, and the caller then writes to
\* that data.
SpecAliasing == Init /\ [][NextAliasing]_vars

\* ------------------------------------------------- concurrent calls of All

\* A concurrent caller hands All at most MaxCallerLen elements.
MaxCallerLen == 2

\* The state of the sequential calls.
seqVars == <<prim, pc, form, vs, i, errs, ret, invoked, recv, ri, msg, texts, held, prior, walk,
            scan>>

\* Caller c enters validate.All(vs...) of the latest function form.
Caller_All_Start(c) ==
    /\ callers[c].pc = "idle"
    /\ \E xs \in SeqsUpTo(SampleErrors, MaxCallerLen) :
          callers' = [callers EXCEPT ![c] =
                        [pc |-> "loop", form |-> "errors", vs |-> xs, i |-> 0,
                         errs |-> <<>>, ret |-> Nil]]
    /\ UNCHANGED seqVars

\* The loop appending to one errs that all callers share: the errs of the first
\* caller.
Caller_All_Loop_SharedErrs(c) ==
    LET me == callers[c]
        shared == "g1"
    IN  /\ me.pc = "loop" /\ me.form = "errors"
        /\ me.i < Len(me.vs)
        /\ callers' = [d \in Callers |->
                         [callers[d] EXCEPT
                            !.errs = IF d = shared
                                     THEN All_Append(callers[shared].errs, me.vs[me.i + 1])
                                     ELSE @,
                            !.i = IF d = c THEN @ + 1 ELSE @]]
        /\ UNCHANGED seqVars

\* One iteration of the loop of caller c: it reads and writes c's locals only.
Caller_All_Loop(c) ==
    LET me == callers[c]
    IN  /\ me.pc = "loop" /\ me.form = "errors"
        /\ me.i < Len(me.vs)
        /\ callers' = [callers EXCEPT ![c].errs = All_Append(me.errs, me.vs[me.i + 1]),
                                       ![c].i = me.i + 1]
        /\ UNCHANGED seqVars

Caller_All_Exit(c) ==
    LET me == callers[c]
    IN  /\ me.pc = "loop" /\ me.form = "errors"
        /\ me.i = Len(me.vs)
        /\ callers' = [callers EXCEPT ![c].ret = All_Return(me.errs), ![c].pc = "done"]
        /\ UNCHANGED seqVars

\* Caller c enters validate.All(vs...) of the struct form with labels.
Caller_All_A_Start(c) ==
    /\ callers[c].pc = "idle"
    /\ \E xs \in SeqsUpTo(SampleValidatables, MaxCallerLen) :
          callers' = [callers EXCEPT ![c] =
                        [pc |-> "loop", form |-> "validatable", vs |-> xs, i |-> 0,
                         errs |-> <<>>, ret |-> Nil]]
    /\ UNCHANGED seqVars

Caller_All_A_Loop(c) ==
    LET me == callers[c]
    IN  /\ me.pc = "loop" /\ me.form = "validatable"
        /\ me.i < Len(me.vs)
        /\ callers' = [callers EXCEPT
                          ![c].errs = All_A_Append(me.errs, Validate(me.vs[me.i + 1])),
                          ![c].i = me.i + 1]
        /\ UNCHANGED seqVars

Caller_All_A_Exit(c) ==
    LET me == callers[c]
    IN  /\ me.pc = "loop" /\ me.form = "validatable"
        /\ me.i = Len(me.vs)
        /\ callers' = [callers EXCEPT ![c].ret = All_A_Return(me.errs), ![c].pc = "done"]
        /\ UNCHANGED seqVars

NextConcurrent ==
    \E c \in Callers :
        \/ Caller_All_Start(c)
        \/ Caller_All_Loop(c)
        \/ Caller_All_Exit(c)
        \/ Caller_All_A_Start(c)
        \/ Caller_All_A_Loop(c)
        \/ Caller_All_A_Exit(c)

\* The callers of All run at the same time, their steps interleaved in any order.
SpecConcurrent == Init /\ [][NextConcurrent]_vars

\* ------------------------------------------- the loops, one step at a time

\* A failure tree is followed while it is at most this deep and this wide.
MaxTreeDepth == 2
MaxTreeWidth == 2

\* The result of All over w arguments, the p-th of them the result of a nested
\* All of the same shape (d levels of them), the others the failure leaf.
RECURSIVE Tree(_, _, _, _)
Tree(d, w, p, leaf) ==
    All([k \in 1..w |-> IF d > 0 /\ k = p THEN Tree(d - 1, w, p, leaf) ELSE leaf])

SampleTrees ==
    { Tree(d, w, p, leaf) :
        d \in 0..MaxTreeDepth, w \in 1..MaxTreeWidth, p \in 1..MaxTreeWidth,
        leaf \in SampleErrors \ {Nil} }

\* The nodes of the tree of e: the sets and the single violations.
RECURSIVE Nodes(_)
RECURSIVE NodesOf(_, _)
NodesOf(es, k) == IF k > Len(es) THEN 0 ELSE Nodes(es[k]) + NodesOf(es, k + 1)
Nodes(e) == IF e.type = "errMultiple" THEN 1 + NodesOf(e.Errors, 1) ELSE 1

\* One call of errMultiple.Error(): the receiver, the position of its loop, msg.
Frame(e) == [e |-> e, ri |-> 0, msg |-> <<>>]

\* Error() is called on a result of All.
Error_Enter ==
    /\ pc = "idle"
    /\ \E e \in SampleTrees :
          walk' = [tree |-> e, stack |-> <<Frame(e)>>, visits |-> 1, text |-> ""]
    /\ pc' = "walk"
    /\ UNCHANGED <<scan, callers, prior, prim, form, vs, i, errs, ret, invoked, renderVars, held>>

\* q.Error() in the loop, q a single violation: its text is appended to msg.
Error_Leaf ==
    /\ pc = "walk"
    /\ LET n == Len(walk.stack)
           top == walk.stack[n]
       IN  /\ top.ri < Len(top.e.Errors)
           /\ top.e.Errors[top.ri + 1].type # "errMultiple"
           /\ walk' = [walk EXCEPT
                          !.stack[n].msg = Append(@, Error(top.e.Errors[top.ri + 1])),
                          !.stack[n].ri = @ + 1,
                          !.visits = @ + 1]
    /\ UNCHANGED <<scan, callers, prior, prim, pc, form, vs, i, errs, ret, invoked, renderVars,
                   held>>

\* q.Error() in the loop, q a nested set: its Error() is entered.
Error_Descend ==
    /\ pc = "walk"
    /\ LET n == Len(walk.stack)
           top == walk.stack[n]
       IN  /\ top.ri < Len(top.e.Errors)
           /\ top.e.Errors[top.ri + 1].type = "errMultiple"
           /\ walk' = [walk EXCEPT
                          !.stack = Append(@, Frame(top.e.Errors[top.ri + 1])),
                          !.visits = @ + 1]
    /\ UNCHANGED <<scan, callers, prior, prim, pc, form, vs, i, errs, ret, invoked, renderVars,
                   held>>

\* The loop is over: Error() returns its text, to the loop of the set around it
\* or to the caller.
Error_Return ==
    /\ pc = "walk"
    /\ LET n == Len(walk.stack)
           top == walk.stack[n]
           text == errMultiple_Text(Len(top.e.Errors), top.msg)
       IN  /\ top.ri = Len(top.e.Errors)
           /\ IF n = 1
              THEN /\ walk' = [walk EXCEPT !.stack = <<>>, !.text = text]
                   /\ pc' = "walked"
              ELSE /\ walk' = [walk EXCEPT
                                  !.stack = [SubSeq(@, 1, n - 1) EXCEPT
                                               ![n - 1].msg = Append(@, text),
                                               ![n - 1].ri = @ + 1]]
                   /\ pc' = pc
    /\ UNCHANGED <<scan, callers, prior, prim, form, vs, i, errs, ret, invoked, renderVars, held>>

\* validate.OneOf(name, v, options...) is entered.
OneOf_Start ==
    /\ pc = "idle"
    /\ \E name \in Names, v \in 0..MaxVal, options \in SeqsUpTo(0..MaxVal, MaxOpts) :
          scan' = [T |-> "int", Name |-> name, v |-> v, options |-> options, k |-> 0,
                   ret |-> Nil]
    /\ pc' = "scan"
    /\ UNCHANGED <<walk, callers, prior, prim, form, vs, i, errs, ret, invoked, renderVars, held>>

\* The scan that compares v with the same option again.
OneOf_Compare_SameOption ==
    /\ pc = "scan"
    /\ scan.k < Len(scan.options)
    /\ scan.v # scan.options[scan.k + 1]
    /\ scan' = scan
    /\ UNCHANGED <<walk, callers, prior, prim, pc, form, vs, i, errs, ret, invoked, renderVars,
                   held>>

\* if v == q is false for the next option q: the loop goes on.
OneOf_Compare ==
    /\ pc = "scan"
    /\ scan.k < Len(scan.options)
    /\ scan.v # scan.options[scan.k + 1]
    /\ scan' = [scan EXCEPT !.k = @ + 1]
    /\ UNCHANGED <<walk, callers, prior, prim, pc, form, vs, i, errs, ret, invoked, renderVars,
                   held>>

\* if v == q { return nil }
OneOf_Found ==
    /\ pc = "scan"
    /\ scan.k < Len(scan.options)
    /\ scan.v = scan.options[scan.k + 1]
    /\ scan' = [scan EXCEPT !.k = @ + 1, !.ret = Nil]
    /\ pc' = "scanned"
    /\ UNCHANGED <<walk, callers, prior, prim, form, vs, i, errs, ret, invoked, renderVars, held>>

\* The loop is over: return errOneOf[T]{Name: name, Val: v, Options: options}.
OneOf_NotFound ==
    /\ pc = "scan"
    /\ scan.k = Len(scan.options)
    /\ scan' = [scan EXCEPT !.ret = errOneOf(scan.T, scan.Name, scan.v, scan.options)]
    /\ pc' = "scanned"
    /\ UNCHANGED <<walk, callers, prior, prim, form, vs, i, errs, ret, invoked, renderVars, held>>

NextTermination ==
    \/ All_Start
    \/ All_Loop
    \/ All_Exit
    \/ OneOf_Start
    \/ OneOf_Compare
    \/ OneOf_Found
    \/ OneOf_NotFound
    \/ Error_Enter
    \/ Error_Leaf
    \/ Error_Descend
    \/ Error_Return

\* A call that was entered goes on: the code of All, OneOf and Error() is
\* straight-line code and loops, with nothing to wait for, so a step that can be
\* taken is taken. (Whether a call is entered is up to the caller.)
Running ==
    /\ WF_vars(All_Loop)
    /\ WF_vars(All_Exit)
    /\ WF_vars(OneOf_Compare)
    /\ WF_vars(OneOf_Found)
    /\ WF_vars(OneOf_NotFound)
    /\ WF_vars(Error_Leaf)
    /\ WF_vars(Error_Descend)
    /\ WF_vars(Error_Return)

SpecTermination == Init /\ [][NextTermination]_vars /\ Running

\* The loops of All and of Error() compute what All and Error() compute (a check
\* of the model itself).
StepsAgree ==
    /\ pc = "done" =>
          ret = CASE form = "errors" -> All(vs)
                  [] form = "validatable" -> All_A(vs)
                  [] form = "earliest" -> All_C(vs)
    /\ pc = "rendered" =>
          texts[Len(texts)] = CASE form = "errors" -> Error(recv)
                                [] form = "validatable" -> Error_A(recv)
                                [] form = "earliest" -> Error_C(recv)

\* ====================================================================== claims

\* ---------------------------------------------------------------------- C1
\* C1: the function-form Min(name, v, min) returns a failure iff v < min and
\* Max(name, v, max) returns a failure iff v > max; a value equal to the bound
\* passes both.  (The code fails a value equal to the bound.)
C1_FunctionMinMaxStrict ==
    /\ prim.fn = "Min" => (~IsNil(prim.ret) <=> prim.v < prim.b)
    /\ prim.fn = "Max" => (~IsNil(prim.ret) <=> prim.v > prim.b)

\* ---------------------------------------------------------------------- C2
\* C2: Min[T].Validate returns a failure iff Value < Min, Max[T].Validate iff
\* Value > Max; a value equal to the bound returns nil, and the failure returned
\* is the validator instance itself.
C2_StructMinMaxStrict ==
    /\ prim.fn = "Min.Validate" =>
          /\ ~IsNil(prim.ret) <=> prim.s.Value < prim.s.Min
          /\ ~IsNil(prim.ret) => prim.ret = prim.s
    /\ prim.fn = "Max.Validate" =>
          /\ ~IsNil(prim.ret) <=> prim.s.Value > prim.s.Max
          /\ ~IsNil(prim.ret) => prim.ret = prim.s

\* Min.Validate was called with a value equal to its bound and returned nil.
C2_Witness ==
    /\ prim.fn = "Min.Validate"
    /\ prim.s.Value = prim.s.Min
    /\ IsNil(prim.ret)

\* ---------------------------------------------------------------------- C3
\* C3: OneOf, in the struct form and in the function form, returns nil iff the
\* value equals at least one element of the allowed sequence; with an empty
\* allowed sequence it fails for every value.
C3_OneOfMembership ==
    /\ prim.fn = "OneOf" =>
          (IsNil(prim.ret) <=> \E k \in 1..Len(prim.options) : prim.options[k] = prim.v)
    /\ prim.fn = "OneOf.Validate" =>
          (IsNil(prim.ret) <=> \E k \in 1..Len(prim.s.Values) : prim.s.Values[k] = prim.s.Value)

\* OneOf.Validate accepted a value that is in the allowed sequence, but not first.
C3_Witness ==
    /\ prim.fn = "OneOf.Validate"
    /\ Len(prim.s.Values) = MaxOpts
    /\ prim.s.Values[1] # prim.s.Value
    /\ prim.s.Values[MaxOpts] = prim.s.Value
    /\ IsNil(prim.ret)

\* ---------------------------------------------------------------------- C4
\* C4: Before fails iff the value is not strictly earlier than the reference,
\* After fails iff it is not strictly later; a value equal to the reference fails
\* both.
C4_BeforeAfterStrict ==
    /\ prim.fn = "Before" => (~IsNil(prim.ret) <=> ~(prim.v < prim.b))
    /\ prim.fn = "After" => (~IsNil(prim.ret) <=> ~(prim.v > prim.b))
    /\ prim.fn = "Before.Validate" => (~IsNil(prim.ret) <=> ~(prim.s.Value < prim.s.Time))
    /\ prim.fn = "After.Validate" => (~IsNil(prim.ret) <=> ~(prim.s.Value > prim.s.Time))
    /\ prim.fn \in {"Before", "After"} /\ prim.v = prim.b => ~IsNil(prim.ret)
    /\ prim.fn \in {"Before.Validate", "After.Validate"} /\ prim.s.Value = prim.s.Time
          => prim.ret = prim.s

\* After.Validate was called with a value equal to the reference and failed.
C4_Witness ==
    /\ prim.fn = "After.Validate"
    /\ prim.s.Value = prim.s.Time
    /\ ~IsNil(prim.ret)

\* What the elements of vs evaluate to: themselves in the function form, the
\* result of their Validate in the struct forms.
Results ==
    [k \in 1..Len(vs) |->
        CASE form = "errors" -> vs[k]
          [] form = "validatable" -> Validate(vs[k])
          [] form = "earliest" -> Validate_C(vs[k])]

Failing == {k \in 1..Len(vs) : ~IsNil(Results[k])}

\* The position, among the children of the set returned, of failing element k.
ChildPosition(k) == Cardinality({j \in Failing : j <= k})

IsSet(e) == e.type \in {"errMultiple", "ValidationError"}

\* ---------------------------------------------------------------------- C5
\* C5: All never short-circuits and never reorders: the children of the set it
\* returns are the failures of the failing elements, one per failing element, in
\* the order supplied; passing elements contribute nothing.
C5_AllCollectsEveryFailureInOrder ==
    pc = "done" /\ ~IsNil(ret) =>
        /\ i = Len(vs)
        /\ Len(ret.Errors) = Cardinality(Failing)
        /\ \A k \in Failing : ret.Errors[ChildPosition(k)] = Results[k]

\* All was called with five results of which the first, third and fifth failed,
\* the first and the fifth differently, and returned a set of three.
C5_Witness ==
    /\ pc = "done" /\ form = "errors"
    /\ Len(vs) = 5
    /\ Failing = {1, 3, 5}
    /\ vs[1] # vs[5]
    /\ Len(ret.Errors) = 3

\* ---------------------------------------------------------------------- C6
\* C6: All returns nil iff no supplied element failed, also when called with no
\* element; a set it returns has at least one child; the valid employee of the
\* tests (scenario B) validates to nil.
C6_AllNilIffNoFailure ==
    pc = "done" =>
        /\ IsNil(ret) <=> Failing = {}
        /\ ~IsNil(ret) => IsSet(ret) /\ Len(ret.Errors) >= 1
        /\ vs = <<>> => IsNil(ret)
        /\ vs = Employee_Checks(Employee("Hera", 55, Color("red"), Education(75, "KAIST"),
                                         790000, 0, 2022, 1))
              /\ form = "validatable" => IsNil(ret)

\* All in the function form was called with elements that are all nil, and returned nil.
C6_Witness ==
    /\ pc = "done" /\ form = "errors"
    /\ Len(vs) = MaxLen
    /\ Failing = {}
    /\ IsNil(ret)

\* ---------------------------------------------------------------------- C7
\* C7: in one call of All over Validatables, Validate of every element is invoked
\* exactly once, in the order supplied, whether it passes or fails.  (The earliest
\* All invokes Validate of a failing element twice.)
C7_ValidateInvokedOncePerElement ==
    pc = "done" /\ form \in {"validatable", "earliest"} =>
        invoked = [k \in 1..Len(vs) |-> k]

\* ---------------------------------------------------------------------- C8
\* C8: nesting is preserved: a set that a nested composite's All returned is one
\* child of the parent's set, at the position of its element; the parent has as
\* many children as failing elements; the tree is one deeper than its deepest
\* child.
C8_NestedSetIsOneChild ==
    pc = "done" /\ ~IsNil(ret) =>
        /\ \A k \in Failing :
              IsSet(Results[k]) =>
                  /\ ret.Errors[ChildPosition(k)] = Results[k]
                  /\ Len(ret.Errors[ChildPosition(k)].Errors) = Len(Results[k].Errors)
        /\ Len(ret.Errors) = Cardinality(Failing)
        /\ \A k \in Failing : Depth(ret) >= 1 + Depth(Results[k])
        /\ \E k \in Failing : Depth(ret) = 1 + Depth(Results[k])

\* A parent All returned a set three levels deep: one of its elements, after a
\* passing and a failing one, was a one-element set holding a one-element set.
C8_Witness ==
    /\ pc = "done" /\ form = "errors"
    /\ Len(vs) = 3
    /\ IsNil(vs[1])
    /\ vs[2].type = "errSingle"
    /\ vs[3].type = "errMultiple"
    /\ Len(vs[3].Errors) = 1
    /\ vs[3].Errors[1].type = "errMultiple"
    /\ Len(ret.Errors) = 2
    /\ ret.Errors[2] = vs[3]
    /\ Depth(ret) = 3

\* ---------------------------------------------------------------------- C9
\* The employee of scenario A: the fields the scenario does not name are valid.
ScenarioA ==
    Employee("Bob", 101, Color("red"), Education(75, "Berkeley"),
             BobSalary, 0, 2022, 1)

NameNotInSet == OneOfStruct("string", "name", "Bob", <<"Zeus", "Hera">>)
AgeNotInSet == OneOfStruct("int", "age", 101, <<35, 55>>)
SalaryAboveMax == MaxStruct("float64", "salary", BobSalary, MaxSalary)
SchoolNotInSet == OneOfStruct("string", "", "Berkeley", <<"KAIST", "Stanford">>)

\* C9 as claimed: scenario A yields exactly name not-in-set, age not-in-set, salary
\* above-max and the nested one-element set, in this order.
C9_ScenarioA_AsClaimed ==
    pc = "done" /\ form = "validatable" /\ vs = Employee_Checks(ScenarioA) =>
        ret = ValidationError(<< NameNotInSet, AgeNotInSet, SalaryAboveMax,
                                 ValidationError(<<SchoolNotInSet>>) >>)

\* C9 (amended): scenario A yields exactly name not-in-set, age not-in-set, the
\* nested one-element set holding the school's not-in-set failure, and salary
\* above-max, in this order, the order in which Employee.Validate declares its
\* checks (Education before Salary); the check of age against min 10 passes and
\* contributes nothing.  For every employee with the four fields of the scenario,
\* whatever its other fields, these four are among the violations, in this order.
C9_ScenarioA_DeclaredOrder ==
    LET four == << NameNotInSet, AgeNotInSet, ValidationError(<<SchoolNotInSet>>),
                   SalaryAboveMax >>
        IsOfTheFour(e) == \E k \in 1..4 : e = four[k]
    IN  /\ pc = "done" /\ form = "validatable" /\ vs = Employee_Checks(ScenarioA) =>
              /\ ret = ValidationError(four)
              /\ IsNil(Results[3])
        /\ pc = "done" /\ form = "validatable" =>
              \A e \in Employees :
                  /\ e.Name = "Bob" /\ e.Age = 101 /\ e.Salary = BobSalary
                  /\ e.Education = Education(75, "Berkeley")
                  /\ vs = Employee_Checks(e)
                  => SelectSeq(ret.Errors, IsOfTheFour) = four

\* Employee.Validate has returned for the employee of scenario A.
C9_Witness ==
    /\ pc = "done" /\ form = "validatable"
    /\ vs = Employee_Checks(ScenarioA)
    /\ Len(ret.Errors) = 4

\* ---------------------------------------------------------------------- C10
\* C10: rendering is idempotent and pure: the calls of Error() on a set that All
\* returned, whatever its depth, all return the same text, and during and after
\* them the set is the one All returned: same children, same order.
C10_ErrorIdempotentAndPure ==
    /\ pc \in {"render", "rendered"} => ret = held
    /\ \A a, b \in 1..Len(texts) : texts[a] = texts[b]
    /\ pc = "rendered" => recv = held /\ Len(msg) = Len(held.Errors)

\* Error() has returned twice on a set that holds a violation and a nested set.
C10_Witness ==
    /\ pc = "rendered" /\ form = "errors"
    /\ Len(texts) = 2
    /\ Len(ret.Errors) = 2
    /\ ret.Errors[1].type = "errSingle"
    /\ ret.Errors[2].type = "errMultiple"

\* ---------------------------------------------------------------------- C11
\* C11: MinMax.Validate is All over the Max check then the Min check, both
\* evaluated: it returns nil iff Min <= Value <= Max, and otherwise a set whose
\* children are the above-maximum failure (present iff Value > Max) followed by
\* the below-minimum failure (present iff Value < Min).
C11_MinMaxIsMaxThenMin ==
    prim.fn = "MinMax.Validate" =>
        LET s == prim.s
            above == IF s.Value > s.Max THEN <<MaxStruct_C(s.T, s.Value, s.Max)>> ELSE <<>>
            below == IF s.Value < s.Min THEN <<MinStruct_C(s.T, s.Value, s.Min)>> ELSE <<>>
        IN  /\ IsNil(prim.ret) <=> (s.Min <= s.Value /\ s.Value <= s.Max)
            /\ ~IsNil(prim.ret) => prim.ret = ValidationError(above \o below)

\* MinMax.Validate was called with Min above Max and a value strictly between
\* them, and returned a set of two: the Max failure, then the Min failure.
C11_Witness ==
    /\ prim.fn = "MinMax.Validate"
    /\ prim.s.Max < prim.s.Value /\ prim.s.Value < prim.s.Min
    /\ Len(prim.ret.Errors) = 2
    /\ prim.ret.Errors[1].type = "Max"
    /\ prim.ret.Errors[2].type = "Min"

\* ---------------------------------------------------------------------- C12
\* The bracketed grammar: a set is "validate: N errors: [m1; m2; ...]", N the
\* number of its direct children and m_i the text of child i, a nested set being
\* such a segment itself; a leaf is the text of its own Error().
RECURSIVE Bracketed(_)
Bracketed(e) ==
    IF IsSet(e)
    THEN "validate: " \o ToString(Len(e.Errors)) \o " errors: ["
           \o Join([k \in 1..Len(e.Errors) |-> Bracketed(e.Errors[k])], "; ") \o "]"
    ELSE IF form = "errors" THEN Error(e) ELSE Error_A(e)

\* The number of leaves of a failure tree.
RECURSIVE Leaves(_)
Leaves(e) ==
    IF IsSet(e)
    THEN LET n[k \in 0..Len(e.Errors)] == IF k = 0 THEN 0 ELSE n[k - 1] + Leaves(e.Errors[k])
         IN  n[Len(e.Errors)]
    ELSE 1

RECURSIVE Flat(_)
Flat(e) ==
    IF IsSet(e)
    THEN Join([k \in 1..Len(e.Errors) |-> Flat(e.Errors[k])], ";")
    ELSE Error_A(e)

\* C13: for a composite built from the struct-form validators with Name labels,
\* the text of a failing All result is the texts of the failing checks in declared
\* order joined by ";", with no prefix, no count and no brackets, a nested
\* composite contributing its children's texts inline; the two failing employees
\* of TestEmployee_Error render as the test expects.  (ValidationError.Error of
\* the struct form with labels renders the bracketed grammar.)
C13_FlatRenderingOfLabelledStructForm ==
    pc = "rendered" /\ form = "validatable" =>
        /\ texts[Len(texts)] = Flat(held)
        /\ held = Employee_Validate(TestEmployee1) =>
              texts[Len(texts)] =
                  "name(Bob) is not in [Zeus Hera];age(101) is not in [35 55];"
                  \o "color wrong value(orange), expected([red green blue]);"
                  \o "(Berkeley) is not in [KAIST Stanford];"
                  \o "salary(256.99) higher than max(123.456);"
                  \o "duration(10h0m0s) higher than max(1h0m0s);"
                  \o "birthday(1984-01-01 00:00:00 +0000 UTC) is not after (1984-01-01 00:00:00 +0000 UTC);"
                  \o "vacation_start(2025-01-01 00:00:00 +0000 UTC) is not before (2024-01-01 00:00:00 +0000 UTC)"
        /\ held = Employee_Validate(TestEmployee2) =>
              texts[Len(texts)] =
                  "name(Bob) is not in [Zeus Hera];age(-10) is not in [35 55];"
                  \o "age(-10) smaller than min(10);"
                  \o "color wrong value(orange), expected([red green blue]);"
                  \o "(Berkeley) is not in [KAIST Stanford];"
                  \o "salary(256.99) higher than max(123.456);"
                  \o "birthday(0001-01-01 00:00:00 +0000 UTC) is not after (1984-01-01 00:00:00 +0000 UTC)"

\* ---------------------------------------------------------------------- C14
\* The composites among the elements of vs whose Validate returned an ad hoc
\* failure of its own instead of the result of All.
AdHoc == {k \in Failing : vs[k].type \in {"Color", "Education"} /\ ~IsSet(Results[k])}

\* C14: when a composite's Validate bypasses All and returns one ad hoc failure
\* (Color's error, Education's "my special error"), the parent All places that very
\* value, with no set around it, as exactly one child at the composite's position,
\* and the checks the composite skipped contribute nothing.
C14_AdHocFailureIsOneChild ==
    pc = "done" /\ form = "validatable" =>
        /\ \A k \in AdHoc :
              /\ Results[k].type = "errorString"
              /\ ret.Errors[ChildPosition(k)] = Results[k]
        /\ ~IsNil(ret) => Len(ret.Errors) = Cardinality(Failing)
        /\ \A k \in 1..Len(vs) :
              vs[k].type = "Education" /\ vs[k].Duration % 17 = 5 =>
                  /\ Results[k] = errorString("my special error")
                  /\ \A j \in 1..Len(ret.Errors), c \in 1..2 :
                        /\ ret.Errors[j] # Education_Checks(vs[k])[c]
                        /\ ~IsSet(ret.Errors[j])
        /\ \A k \in 1..Len(vs) :
              vs[k].type = "Color" /\ vs[k].s = "orange" =>
                  Results[k] = errorString("color wrong value(orange), expected([red green blue])")

\* Employee.Validate has returned for an employee with a wrong color and an
\* education of the special duration whose skipped checks would both have failed.
C14_Witness ==
    /\ pc = "done" /\ form = "validatable"
    /\ Len(vs) = 9
    /\ vs[4] = Color("orange")
    /\ vs[5] = Education(5, "Berkeley")
    /\ AdHoc = {4, 5}
    /\ ~IsNil(Min_Validate(Education_Checks(vs[5])[1]))
    /\ ~IsNil(OneOf_Validate(Education_Checks(vs[5])[2]))
    /\ ret.Errors[ChildPosition(5)] = errorString("my special error")

\* ---------------------------------------------------------------------- C15
\* C15: validation is deterministic and repeatable: the evaluations of Validate
\* on the same input all return the same result (nil, or failure trees of the
\* same shape, order and contents), however many evaluations came before.
C15_RepeatedValidateSameResult ==
    /\ \A a, b \in 1..Len(prior) : prior[a] = prior[b]
    /\ pc = "done" => Len(prior) >= 1 /\ prior[Len(prior)] = ret

\* Employee.Validate has returned the second time for an employee that fails
\* with a nested set among its violations.
C15_Witness ==
    /\ pc = "done" /\ form = "validatable"
    /\ Len(vs) = 9
    /\ Len(prior) = 2
    /\ \E k \in 1..Len(ret.Errors) : IsSet(ret.Errors[k])
    /\ Len(ret.Errors) >= 3

\* ---------------------------------------------------------------------- C16
\* What caller c gets from All when it runs alone.
Alone(c) ==
    IF callers[c].form = "errors" THEN All(callers[c].vs) ELSE All_A(callers[c].vs)

\* C16: concurrent callers are independent: with the steps of the callers
\* interleaved in any order, each caller's result is the result it gets running
\* alone, and a caller that is not yet done has collected exactly what its own
\* elements so far yield.
C16_ConcurrentCallersIndependent ==
    \A c \in Callers :
        /\ callers[c].pc = "done" => callers[c].ret = Alone(c)
        /\ callers[c].pc = "loop" =>
              callers[c].errs = IF callers[c].form = "errors"
                                THEN All_Errs(callers[c].vs, callers[c].i)
                                ELSE All_A_Errs(callers[c].vs, callers[c].i)

\* Both callers are done after their loops ran interleaved on different inputs,
\* one in each form, and each got a set of failures of its own.
C16_Witness ==
    /\ \A c \in Callers : callers[c].pc = "done" /\ Len(callers[c].vs) = MaxCallerLen
    /\ \E c, d \in Callers :
          /\ callers[c].form = "errors" /\ callers[d].form = "validatable"
          /\ ~IsNil(callers[c].ret) /\ ~IsNil(callers[d].ret)
          /\ callers[c].ret # callers[d].ret
          /\ Len(callers[c].ret.Errors) = 2 /\ Len(callers[d].ret.Errors) = 1

\* ---------------------------------------------------------------------- C17
\* C17: no operation panics on well-typed input: All, also with zero elements and
\* with nil elements among its arguments, returns nil or a set of failures, every
\* element's check returns nil or a failure, and Error() on a set that All
\* returned returns text.  (All over Validatables panics on a nil Validatable.)
C17_NoOperationPanics ==
    /\ pc # "panic"
    /\ pc \in {"loop", "done"} => \A k \in 1..i : Results[k] # Panic
    /\ pc = "done" => IsNil(ret) \/ (IsSet(ret) /\ Len(ret.Errors) >= 1)
    /\ pc = "rendered" => Len(texts) >= 1 /\ texts[Len(texts)] \in STRING

\* ---------------------------------------------------------------------- C18
\* C18: the failure a failing primitive of the function form returns carries
\* exactly the label, the value and the bound or reference it was called with and
\* the kind tag of the primitive; a failing OneOf carries the allowed sequence as
\* it was passed, in its order and with its duplicates; no text is stored.
C18_FailureCarriesItsInputs ==
    prim.fn \in {"Min", "Max", "Before", "After", "OneOf"} /\ ~IsNil(prim.ret) =>
        /\ prim.fn = "Min" =>
              prim.ret = [type |-> "errSingle", T |-> "int", Name |-> prim.name,
                          Val |-> prim.v, To |-> prim.b, Op |-> "smaller than min"]
        /\ prim.fn = "Max" =>
              prim.ret = [type |-> "errSingle", T |-> "int", Name |-> prim.name,
                          Val |-> prim.v, To |-> prim.b, Op |-> "higher than max"]
        /\ prim.fn = "Before" =>
              prim.ret = [type |-> "errSingle", T |-> "time.Time", Name |-> prim.name,
                          Val |-> prim.v, To |-> prim.b, Op |-> "is not before"]
        /\ prim.fn = "After" =>
              prim.ret = [type |-> "errSingle", T |-> "time.Time", Name |-> prim.name,
                          Val |-> prim.v, To |-> prim.b, Op |-> "is not after"]
        /\ prim.fn = "OneOf" =>
              prim.ret = [type |-> "errOneOf", T |-> "int", Name |-> prim.name,
                          Val |-> prim.v, Options |-> prim.options]

\* OneOf failed on an allowed sequence that is not sorted and names a value twice.
C18_Witness ==
    /\ prim.fn = "OneOf"
    /\ ~IsNil(prim.ret)
    /\ Len(prim.options) = 3
    /\ prim.options[1] = prim.options[3]
    /\ prim.options[1] > prim.options[2]
    /\ prim.ret.Options = prim.options

\* ---------------------------------------------------------------------- C19
\* Two allowed sequences with the same distinct values: each a permutation of the
\* other up to duplicates.
SameValues(a, b) == {a[k] : k \in 1..Len(a)} = {b[k] : k \in 1..Len(b)}

\* C19: whether OneOf passes depends only on the set of distinct allowed values:
\* OneOf on any permutation of the allowed sequence, with duplicates added or
\* removed, passes iff the call made passed, in the function and the struct form.
C19_OneOfDependsOnValueSetOnly ==
    /\ prim.fn = "OneOf" =>
          \A S \in SeqsUpTo(0..MaxVal, MaxOpts) :
              SameValues(S, prim.options) =>
                  (IsNil(OneOf("int", prim.name, prim.v, S)) <=> IsNil(prim.ret))
    /\ prim.fn = "OneOf.Validate" =>
          \A S \in SeqsUpTo(0..MaxVal, MaxOpts) :
              SameValues(S, prim.s.Values) =>
                  (IsNil(OneOf_Validate(OneOfStruct("int", prim.s.Name, prim.s.Value, S)))
                     <=> IsNil(prim.ret))

\* OneOf passed a value that is the last of an allowed sequence of two distinct
\* values, which has shorter, longer and reordered sequences of the same values.
C19_Witness ==
    /\ prim.fn = "OneOf"
    /\ Len(prim.options) = 2
    /\ prim.options[1] # prim.options[2]
    /\ prim.options[2] = prim.v
    /\ IsNil(prim.ret)
    /\ \E S \in SeqsUpTo(0..MaxVal, MaxOpts) :
          SameValues(S, prim.options) /\ Len(S) = 3 /\ S[1] = prim.v /\ S[3] # prim.v

\* ---------------------------------------------------------------------- C20
\* C20: a violation is immutable once constructed: after OneOf returned a failure
\* for an allowed sequence the caller passed as a slice, a later write by the
\* caller to an element of the slice changes neither the allowed sequence the
\* failure holds nor its text, and a later change of the caller's value does not
\* change a failure Min returned.  (The failure of OneOf holds the caller's slice
\* itself.)
C20_FailureImmutable ==
    prim.fn # "none" /\ ~IsNil(prim.was) =>
        /\ prim.ret = prim.was
        /\ prim.fn \in {"OneOf", "Min"} => Error(prim.ret) = Error(prim.was)
        /\ prim.fn = "OneOf.Validate" => Error_A(prim.ret) = Error_A(prim.was)

\* ---------------------------------------------------------------------- C21
\* The check of the function form with the fields of struct-form validator f; for
\* a composite, its Validate with its own checks called in the function form.
RECURSIVE FunctionForm(_)
FunctionForm(f) ==
    CASE f.type = "Min" -> Min(f.T, f.Name, f.Value, f.Min)
      [] f.type = "Max" -> Max(f.T, f.Name, f.Value, f.Max)
      [] f.type = "OneOf" -> OneOf(f.T, f.Name, f.Value, f.Values)
      [] f.type = "Before" -> Before(f.Name, f.Value, f.Time)
      [] f.type = "After" -> After(f.Name, f.Value, f.Time)
      [] f.type = "Color" -> Color_Validate(f)
      [] f.type = "Education" ->
            IF f.Duration % 17 = 5 THEN errorString("my special error")
            ELSE All([k \in 1..2 |-> FunctionForm(Education_Checks(f)[k])])
      [] f.type = "nil" -> Nil

\* C21: the two designs agree: a check of the function form returns a failure
\* iff the struct-form validator with the same fields does, and All over the
\* results of the function-form checks returns nil iff All over the Validatables
\* does, with as many children, at the same positions, otherwise.  (The function
\* form of Min and Max fails a value equal to the bound, see C1.)
C21_FunctionAndStructFormAgree ==
    pc \in {"loop", "done"} /\ form = "validatable" =>
        /\ \A k \in 1..i :
              vs[k].type \in {"Min", "Max", "OneOf", "Before", "After"} =>
                  (IsNil(Results[k]) <=> IsNil(FunctionForm(vs[k])))
        /\ pc = "done" =>
              LET r == All([k \in 1..Len(vs) |-> FunctionForm(vs[k])])
              IN  /\ IsNil(ret) <=> IsNil(r)
                  /\ ~IsNil(ret) /\ ~IsNil(r) => Len(ret.Errors) = Len(r.Errors)
                  /\ {k \in 1..Len(vs) : ~IsNil(FunctionForm(vs[k]))} = Failing

\* ---------------------------------------------------------------------- C22
\* C22: every operation runs to completion: a call of All that was entered
\* returns after len(vs) iterations of its loop, a call of OneOf returns after at
\* most len(options) comparisons, and a call of Error() on a failure tree returns
\* after visiting each node of the tree once; until then none of them has made
\* more steps than that.
C22_EveryOperationRunsToCompletion ==
    /\ (pc = "loop") ~> (pc = "done" /\ i = Len(vs) /\ ret = All(vs))
    /\ (pc = "scan") ~>
          (pc = "scanned" /\ scan.k <= Len(scan.options)
              /\ scan.ret = OneOf(scan.T, scan.Name, scan.v, scan.options))
    /\ (pc = "walk") ~>
          (pc = "walked" /\ walk.visits = Nodes(walk.tree) /\ walk.text = Error(walk.tree))
    /\ [](/\ pc = "loop" => i <= Len(vs)
          /\ pc = "scan" => scan.k <= Len(scan.options)
          /\ pc = "walk" => walk.visits <= Nodes(walk.tree))

\* Error() has returned from a tree three sets deep and two wide, each of its
\* seven nodes visited once.
C22_Witness ==
    /\ pc = "walked"
    /\ Depth(walk.tree) = 3 /\ Len(walk.tree.Errors) = 2
    /\ walk.visits = 7 /\ Nodes(walk.tree) = 7
    /\ walk.text = Error(walk.tree)

=============================================================================
